---- MODULE Spec2Model ----
(***************************************************************************)
(* A model of agent/output.py: the event sinks of python-agent.            *)
(*                                                                         *)
(* One sink object is constructed (Init picks its class and its            *)
(* constructor arguments) and is then driven through its public methods.   *)
(* Every method is one action; what the outside world decides (whether a   *)
(* client-library call raises, how much time passes) is an input drawn     *)
(* with \E.  The variable ret records how the last call ended.             *)
(* Where threads call one sink at once, each call is a sequence of steps,  *)
(* one per statement of the method.                                        *)
(***************************************************************************)
EXTENDS Integers, Sequences, FiniteSets, TLC

(***************************************************************************)
(* Bounds of the model.                                                    *)
(***************************************************************************)
\* the longest batch handed to sendmany
MaxBatch == 2
\* the most entries a backend log (topic, request log, stdout) holds
MaxLog == 2
\* the most data rows the files hold together
MaxRows == 2
\* the most header rows one file holds
MaxHeaders == 2
\* the most files the file system holds
MaxFiles == 2
\* the most Screen.counter reaches
MaxCount == 3
\* the most session handles made
MaxHandles == 2
\* the most steps of the clock
MaxTicks == 2

VARIABLES
    sink,        \* the class of the constructed sink
    agent,       \* OutputBase.agent
    ret,         \* how the last call ended
    _producer,   \* Kafka._producer
    topic,       \* the messages the broker accepted, one entry per send_messages
    method,      \* HTTPRequest.method
    headers,     \* HTTPRequest.headers
    requests,    \* the requests the endpoint answered
    filename,    \* Csv.filename
    fieldnames,  \* Csv.fieldnames
    kwargs,      \* Csv.kwargs
    fp,          \* Csv.fp
    writer,      \* Csv.writer
    files,       \* the files of the file system
    dirs,        \* the directories of the file system
    quote,       \* SQLAlchemy.quote
    _table,      \* SQLAlchemy._table
    fields,      \* SQLAlchemy.fields
    sql,         \* SQLAlchemy.sql
    _session,    \* SQLAlchemy._session
    _timer,      \* SQLAlchemy._timer
    created,     \* the time each session handle was made
    closed,      \* the session handles close() was called on
    pending,     \* the rows executed in the stored session, not committed
    table,       \* the committed rows of the table
    now,         \* time.time()
    uses,        \* the reads of the session property in the last call
    calls,       \* where each concurrent caller of send or sendmany stands
    transactions, \* the rows executed and not committed, for each handle
    counter,     \* Screen.counter
    stdout       \* what was printed

(***************************************************************************)
(* Python values.                                                          *)
(***************************************************************************)
\* None, for the attributes that hold an object or None
None == 0

\* event.raw_data is a mapping from field names to values, or a string
Mapping(m) == [map |-> m]
Str(s) == [str |-> s]
IsMapping(p) == DOMAIN p = {"map"}

E1 == [type |-> "log", data |-> "m1", raw_data |-> Mapping([a |-> "x", b |-> "y"])]
E2 == [type |-> "log", data |-> "m2", raw_data |-> Mapping([a |-> "\""])]
E3 == [type |-> "log", data |-> "m3", raw_data |-> Mapping([a |-> "x", c |-> "y"])]
E4 == [type |-> "raw", data |-> "m4", raw_data |-> Str("x\"")]
E5 == [type |-> "log", data |-> "m5", raw_data |-> Mapping([a |-> "y", b |-> "x"])]
E6 == [type |-> "raw", data |-> "m6", raw_data |-> Str("x ")]

Events == {E1, E2, E3, E4, E5, E6}

\* the producer contexts a sink is attached to, and agent.parser.fieldnames
Agents == {1, 2}
\* a producer context whose parser names no field
NoFields == 3
parser_fieldnames(a) ==
    IF a = 1 THEN <<"a", "b">> ELSE IF a = 2 THEN <<"b", "c">> ELSE <<>>

\* [f(s[i]) : i] for a sequence s
Map(f(_), s) == [i \in 1..Len(s) |-> f(s[i])]

raw_data(e) == e.raw_data
data(e) == e.data

(***************************************************************************)
(* How a call ended.  outcome is "ok" when the call returned normally and  *)
(* the class of the exception it raised otherwise.                         *)
(***************************************************************************)
Ret(op, outcome, wrote, failed) ==
    [op |-> op, outcome |-> outcome,
     wrote |-> wrote,     \* the backend took something the call wrote
     failed |-> failed,   \* a backend call of this call raised or was refused
     again |-> op = "close" /\ ret.op = op,   \* a close right after a close
     \* close was called on the Kafka or Csv sink, and no archive moved the
     \* file since
     shut |-> /\ sink \in {"Kafka", "Csv"}
              /\ \/ op = "close"
                 \/ ret.shut /\ ~(op = "archive" /\ wrote)]

(***************************************************************************)
(* class OutputBase                                                        *)
(***************************************************************************)
Sinks == {"Kafka", "HTTPRequest", "Csv", "SQLAlchemy", "Screen", "Null"}
BaseSinks == {"Kafka", "HTTPRequest", "Screen", "Null"}

kafkaVars == <<_producer, topic>>
httpVars == <<method, headers, requests>>
csvVars == <<filename, fieldnames, kwargs, fp, writer, files, dirs>>
sqlVars == <<quote, _table, fields, sql, _session, _timer, created, closed,
             pending, table, now, uses, calls, transactions>>
screenVars == <<counter, stdout>>

\* OutputBase.catch, for the classes that do not override it
OutputBase_catch(a) ==
    /\ sink \in BaseSinks
    /\ agent' = a
    /\ ret' = Ret("catch", "ok", FALSE, FALSE)
    /\ UNCHANGED <<sink, kafkaVars, httpVars, csvVars, sqlVars, screenVars>>

\* OutputBase.throw: no class overrides it
OutputBase_throw ==
    /\ sink \in Sinks
    /\ agent' = None
    /\ ret' = Ret("throw", "ok", FALSE, FALSE)
    /\ UNCHANGED <<sink, kafkaVars, httpVars, csvVars, sqlVars, screenVars>>

(***************************************************************************)
(* class Kafka                                                             *)
(***************************************************************************)
\* Kafka.producer: the factory returns a producer or raises
Kafka_producer(raises) ==
    /\ sink = "Kafka"
    /\ IF raises
         THEN /\ ret' = Ret("producer", "OutputError", FALSE, FALSE)
              /\ UNCHANGED _producer
         ELSE /\ _producer' = 1
              /\ ret' = Ret("producer", "ok", FALSE, FALSE)
    /\ UNCHANGED <<sink, agent, topic>>
    /\ UNCHANGED <<httpVars, csvVars, sqlVars, screenVars>>

\* the body shared by Kafka.send and Kafka.sendmany: msgs go to send_messages
Kafka_send_messages(op, msgs, raises) ==
    /\ sink = "Kafka"
    /\ IF _producer = None
         THEN /\ ret' = Ret(op, "OutputError", FALSE, FALSE)
              /\ UNCHANGED topic
         ELSE IF raises
         THEN /\ ret' = Ret(op, "KafkaError", FALSE, TRUE)
              /\ UNCHANGED topic
         ELSE /\ Len(topic) < MaxLog
              /\ topic' = Append(topic, msgs)
              /\ ret' = Ret(op, "ok", TRUE, FALSE)
    /\ UNCHANGED <<sink, agent, _producer>>
    /\ UNCHANGED <<httpVars, csvVars, sqlVars, screenVars>>

Kafka_send(event, raises) ==
    Kafka_send_messages("send", <<data(event)>>, raises)

Kafka_sendmany(events, raises) ==
    Kafka_send_messages("sendmany", Map(data, events), raises)

Kafka_close ==
    /\ sink = "Kafka"
    /\ _producer' = None
    /\ ret' = Ret("close", "ok", FALSE, FALSE)
    /\ UNCHANGED <<sink, agent, topic>>
    /\ UNCHANGED <<httpVars, csvVars, sqlVars, screenVars>>

(***************************************************************************)
(* Text and bytes.  A str is a TLA+ string; where the code looks inside    *)
(* one (json, gzip, base64) it is the sequence of its character codes.     *)
(***************************************************************************)
ord(s) ==
    CASE s = "x" -> <<120>>
      [] s = "y" -> <<121>>
      [] s = "\"" -> <<34>>
      [] s = "x\"" -> <<120, 34>>
      [] s = "x " -> <<120, 32>>
      [] s = "a" -> <<97>>
      [] s = "b" -> <<98>>
      [] s = "c" -> <<99>>
      [] s = "1" -> <<49>>
      [] s = "data" -> <<100, 97, 116, 97>>
      [] s = "gzip" -> <<103, 122, 105, 112>>

Texts == {"x", "y", "\"", "x\"", "x ", "a", "b", "c", "1", "data", "gzip"}

\* the str with these character codes ("?" stands for every other str)
chr(codes) ==
    IF \E s \in Texts : ord(s) = codes
      THEN CHOOSE s \in Texts : ord(s) = codes
      ELSE "?"

\* the order in which a dict is iterated
KeyOrder == <<"a", "b", "c", "data", "gzip">>

RECURSIVE Flatten(_)
Flatten(ss) ==
    IF ss = <<>> THEN <<>>
    ELSE IF Len(ss) = 1 THEN ss[1]
    ELSE LET h == Len(ss) \div 2
         IN  Flatten(SubSeq(ss, 1, h)) \o Flatten(SubSeq(ss, h + 1, Len(ss)))

RECURSIVE Join(_, _)
Join(sep, ss) ==
    IF Len(ss) <= 1 THEN Flatten(ss)
    ELSE Head(ss) \o sep \o Join(sep, Tail(ss))

keys(m) == SelectSeq(KeyOrder, LAMBDA k : k \in DOMAIN m)

(***************************************************************************)
(* json.dumps and json.loads, on str, on dict of str to str and on list.   *)
(* A str is held as its character codes.                                   *)
(***************************************************************************)
JStr(s) == [j |-> "str", s |-> s]
JObj(m) == [j |-> "obj", m |-> m]
JArr(xs) == [j |-> "arr", xs |-> xs]

\* a raw_data as json sees it: every str by its characters
JPayload(p) ==
    IF IsMapping(p) THEN JObj([k \in DOMAIN p.map |-> ord(p.map[k])])
    ELSE JStr(ord(p.str))

\* and the raw_data a parsed value is
PyPayload(v) ==
    IF v.j = "obj" THEN Mapping([k \in DOMAIN v.m |-> chr(v.m[k])])
    ELSE Str(chr(v.s))

\* py_encode_basestring_ascii, for the characters of ord
json_escape(c) ==
    IF c = 34 THEN <<92, 34>> ELSE IF c = 92 THEN <<92, 92>> ELSE <<c>>

json_string(s) == <<34>> \o Flatten(Map(json_escape, s)) \o <<34>>

json_dict(m, item_separator, key_separator) ==
    LET item(k) == json_string(ord(k)) \o key_separator \o json_string(m[k])
    IN  <<123>> \o Join(item_separator, Map(item, keys(m))) \o <<125>>

json_value(v, item_separator, key_separator) ==
    IF v.j = "str" THEN json_string(v.s)
    ELSE json_dict(v.m, item_separator, key_separator)

\* json.dumps(obj, separators=(item_separator, key_separator))
json_dumps(v, item_separator, key_separator) ==
    IF v.j = "arr"
      THEN LET item(x) == json_value(x, item_separator, key_separator)
           IN  <<91>> \o Join(item_separator, Map(item, v.xs)) \o <<93>>
      ELSE json_value(v, item_separator, key_separator)

\* the separators json.dumps uses when given none: ', ' and ': '
DefaultItemSeparator == <<44, 32>>
DefaultKeySeparator == <<58, 32>>

\* what a decoder returns when its input is not what it decodes
Bad == [ok |-> FALSE]
Good(v, i) == [ok |-> TRUE, v |-> v, i |-> i]

\* the index of the first character at or after i that is not a space
RECURSIVE SkipSpace(_, _)
SkipSpace(t, i) ==
    IF i <= Len(t) /\ t[i] = 32 THEN SkipSpace(t, i + 1) ELSE i

\* the number of backslashes that stand next to each other right before j,
\* none of them before i
Backslashes(t, i, j) ==
    CHOOSE k \in 0..(j - i) :
        /\ \A m \in 1..k : t[j - m] = 92
        /\ k = j - i \/ t[j - k - 1] /= 92

\* the characters of a string literal whose opening quote is before i: they
\* end at the first quote that no backslash escapes, and a backslash escapes
\* the quote or the backslash after it
ScanString(t, i, acc) ==
    LET free(j) == Backslashes(t, i, j) % 2 = 0
        ends == {j \in i..Len(t) : t[j] = 34 /\ free(j)}
        end == CHOOSE j \in ends : \A k \in ends : j <= k
        escapes(j) == t[j] = 92 /\ free(j)
        kept == SelectSeq([k \in 1..(end - i) |-> i + k - 1],
                          LAMBDA j : ~escapes(j))
    IN  IF ends = {} THEN Bad
        ELSE IF \E j \in i..(end - 1) : escapes(j) /\ t[j + 1] \notin {34, 92}
          THEN Bad
        ELSE Good(acc \o [k \in 1..Len(kept) |-> t[kept[k]]], end + 1)

ParseString(t, i) ==
    IF i <= Len(t) /\ t[i] = 34 THEN ScanString(t, i + 1, <<>>) ELSE Bad

\* the members of an object after its opening brace, m holding those read
RECURSIVE ParseMembers(_, _, _)
ParseMembers(t, i, m) ==
    LET k == ParseString(t, SkipSpace(t, i))
        c == IF k.ok THEN SkipSpace(t, k.i) ELSE 0
        v == IF k.ok /\ c <= Len(t) /\ t[c] = 58
               THEN ParseString(t, SkipSpace(t, c + 1)) ELSE Bad
        e == IF v.ok THEN SkipSpace(t, v.i) ELSE 0
        m2 == IF v.ok
                THEN [x \in DOMAIN m \cup {chr(k.v)} |->
                         IF x = chr(k.v) THEN v.v ELSE m[x]]
                ELSE m
    IN  IF ~v.ok \/ e > Len(t) THEN Bad
        ELSE IF t[e] = 125 THEN Good(JObj(m2), e + 1)
        ELSE IF t[e] = 44 THEN ParseMembers(t, e + 1, m2)
        ELSE Bad

EmptyDict == [x \in {} |-> <<>>]

ParseValue(t, i) ==
    LET s == SkipSpace(t, i)
    IN  IF s > Len(t) THEN Bad
        ELSE IF t[s] = 34
          THEN LET r == ParseString(t, s)
               IN  IF r.ok THEN Good(JStr(r.v), r.i) ELSE Bad
        ELSE IF t[s] = 123
          THEN IF SkipSpace(t, s + 1) <= Len(t) /\ t[SkipSpace(t, s + 1)] = 125
                 THEN Good(JObj(EmptyDict), SkipSpace(t, s + 1) + 1)
                 ELSE ParseMembers(t, s + 1, EmptyDict)
        ELSE Bad

\* the elements of an array after its opening bracket, xs holding those read
RECURSIVE ParseElements(_, _, _)
ParseElements(t, i, xs) ==
    LET v == ParseValue(t, i)
        e == IF v.ok THEN SkipSpace(t, v.i) ELSE 0
    IN  IF ~v.ok \/ e > Len(t) THEN Bad
        ELSE IF t[e] = 93 THEN Good(JArr(Append(xs, v.v)), e + 1)
        ELSE IF t[e] = 44 THEN ParseElements(t, e + 1, Append(xs, v.v))
        ELSE Bad

\* json.loads: the value a text denotes, or Bad
json_loads(t) ==
    LET s == SkipSpace(t, 1)
        r == IF s <= Len(t) /\ t[s] = 91
               THEN IF SkipSpace(t, s + 1) <= Len(t) /\ t[SkipSpace(t, s + 1)] = 93
                      THEN Good(JArr(<<>>), SkipSpace(t, s + 1) + 1)
                      ELSE ParseElements(t, s + 1, <<>>)
               ELSE ParseValue(t, s)
    IN  IF r.ok /\ SkipSpace(t, r.i) = Len(t) + 1 THEN r ELSE Bad

(***************************************************************************)
(* gzip.GzipFile and base64, on bytes (sequences of 0..255).               *)
(***************************************************************************)
RECURSIVE Sum(_)
Sum(b) ==
    IF b = <<>> THEN 0
    ELSE IF Len(b) = 1 THEN b[1]
    ELSE LET h == Len(b) \div 2
         IN  Sum(SubSeq(b, 1, h)) + Sum(SubSeq(b, h + 1, Len(b)))

\* a 32-bit number as four bytes, the least significant first
LE32(n) == <<n % 256, (n \div 256) % 256, (n \div 65536) % 256,
             (n \div 16777216) % 256>>

FromLE32(b) == b[1] + 256 * b[2] + 65536 * b[3] + 16777216 * b[4]

\* the check value of the trailer: the sum of the bytes stands for CRC-32
\* (it and the length stay below 2^32 for every input of the model)
Checksum(b) == Sum(b)

\* the member header GzipFile writes: magic, deflate, no flags, mtime, xfl, os
GzipHeader(mtime) == <<31, 139, 8, 0>> \o LE32(mtime) \o <<2, 255>>

\* one final stored deflate block: BFINAL, LEN, NLEN, the bytes
Deflate(b) ==
    <<1, Len(b) % 256, Len(b) \div 256,
      255 - (Len(b) % 256), 255 - (Len(b) \div 256)>> \o b

\* GzipFile(fileobj=buf, mode="w"): write(data), close(), buf.getvalue()
gzip_compress(b, mtime) ==
    GzipHeader(mtime) \o Deflate(b) \o LE32(Checksum(b)) \o LE32(Len(b))

\* gunzip: the bytes of a one-member stream, or Bad
gzip_decompress(z) ==
    LET n == Len(z) - 23
        body == SubSeq(z, 16, 15 + n)
    IN  IF /\ n >= 0
           /\ SubSeq(z, 1, 4) = <<31, 139, 8, 0>>
           /\ z[11] = 1
           /\ z[12] + 256 * z[13] = n
           /\ z[14] = 255 - z[12] /\ z[15] = 255 - z[13]
           /\ FromLE32(SubSeq(z, 16 + n, 19 + n)) = Checksum(body)
           /\ FromLE32(SubSeq(z, 20 + n, 23 + n)) = n
          THEN [ok |-> TRUE, v |-> body]
          ELSE Bad

\* the character of a 6-bit value in the base64 alphabet
B64Char(v) ==
    IF v < 26 THEN 65 + v
    ELSE IF v < 52 THEN 97 + (v - 26)
    ELSE IF v < 62 THEN 48 + (v - 52)
    ELSE IF v = 62 THEN 43 ELSE 47

\* and the 6-bit value of a character, -1 when it is not in the alphabet
B64Value(c) ==
    IF c \in 65..90 THEN c - 65
    ELSE IF c \in 97..122 THEN c - 97 + 26
    ELSE IF c \in 48..57 THEN c - 48 + 52
    ELSE IF c = 43 THEN 62
    ELSE IF c = 47 THEN 63 ELSE -1

B64Pad == 61

\* base64.b64encode
b64encode(b) ==
    LET n == Len(b)
        byte(i) == IF i <= n THEN b[i] ELSE 0
        char(k) ==
            LET g == 3 * ((k - 1) \div 4)
                j == (k - 1) % 4
                x == byte(g + 1)
                y == byte(g + 2)
                z == byte(g + 3)
            IN  IF j = 0 THEN B64Char(x \div 4)
                ELSE IF j = 1 THEN B64Char((x % 4) * 16 + y \div 16)
                ELSE IF j = 2
                  THEN IF g + 2 > n THEN B64Pad
                       ELSE B64Char((y % 16) * 4 + z \div 64)
                ELSE IF g + 3 > n THEN B64Pad ELSE B64Char(z % 64)
    IN  [k \in 1..(4 * ((n + 2) \div 3)) |-> char(k)]

\* base64.b64decode: the bytes, or Bad
b64decode(s) ==
    LET n == Len(s)
        pad == IF n >= 2 /\ s[n - 1] = B64Pad /\ s[n] = B64Pad THEN 2
               ELSE IF n >= 1 /\ s[n] = B64Pad THEN 1 ELSE 0
        val(k) == IF k > n - pad THEN 0 ELSE B64Value(s[k])
        byte(i) ==
            LET g == 4 * ((i - 1) \div 3)
                j == (i - 1) % 3
            IN  IF j = 0 THEN val(g + 1) * 4 + val(g + 2) \div 16
                ELSE IF j = 1 THEN (val(g + 2) % 16) * 16 + val(g + 3) \div 4
                ELSE (val(g + 3) % 4) * 64 + val(g + 4)
    IN  IF n % 4 /= 0 \/ \E k \in 1..(n - pad) : B64Value(s[k]) < 0 THEN Bad
        ELSE [ok |-> TRUE, v |-> [i \in 1..(3 * (n \div 4) - pad) |-> byte(i)]]

(***************************************************************************)
(* class HTTPRequest                                                       *)
(***************************************************************************)
\* str.upper, on the method names a caller passes
upper(s) ==
    CASE s \in {"GET", "get"} -> "GET"
      [] s \in {"POST", "post"} -> "POST"
      [] s \in {"PUT", "put"} -> "PUT"

\* HTTPRequest.__init__: method and headers as the constructor leaves them
HTTPRequest_init(headers_arg, method_arg) ==
    [method |-> upper(method_arg),
     headers |-> [h \in DOMAIN headers_arg \cup {"User-Agent"} |->
                    IF h \in DOMAIN headers_arg THEN headers_arg[h]
                    ELSE "python-Agent HTTPRequest"]]

\* a package that leaves the gzip step out
package_without_gzip(events, mtime) ==
    b64encode(json_dumps(JArr(Map(JPayload, Map(raw_data, events))),
                         DefaultItemSeparator, DefaultKeySeparator))

\* HTTPRequest.package: json.dumps, gzip, base64; mtime is the time the gzip
\* header records
HTTPRequest_package(events, mtime) ==
    b64encode(gzip_compress(
        json_dumps(JArr(Map(JPayload, Map(raw_data, events))),
                   DefaultItemSeparator, DefaultKeySeparator),
        mtime))

\* the dict sendmany builds around the packaged events
Wrapped(packed) == [data |-> packed, gzip |-> ord("1")]

\* HTTPRequest.data: the body of a POST, d being a raw_data or the dict of
\* sendmany (j is d as json sees it)
HTTPRequest_data(d, j) ==
    IF "Content-Type" \in DOMAIN headers
       /\ headers["Content-Type"] = "application/json"
      THEN [json |-> json_dumps(j, <<44>>, <<58>>)]
      ELSE [raw |-> d]

\* what requests.get and requests.post do: raise, or return the response of
\* the server, whatever its status
Replies == {[raised |-> "ConnectionError"], [status |-> 200], [status |-> 500]}

\* the server refused the request
IsError(reply) == reply.status >= 400

\* the body shared by HTTPRequest.send and HTTPRequest.sendmany: one call of
\* requests.get or requests.post; the response is logged, not looked at
HTTPRequest_request(op, events, d, j, reply) ==
    /\ sink = "HTTPRequest"
    /\ IF method \notin {"GET", "POST"}
         THEN /\ ret' = Ret(op, "ok", FALSE, FALSE)
              /\ UNCHANGED requests
         ELSE IF "raised" \in DOMAIN reply
         THEN /\ ret' = Ret(op, reply.raised, FALSE, TRUE)
              /\ UNCHANGED requests
         ELSE /\ Len(requests) < MaxLog
              /\ requests' = Append(requests,
                    IF method = "GET"
                      THEN [verb |-> "GET", op |-> op, events |-> events,
                            params |-> d, status |-> reply.status]
                      ELSE [verb |-> "POST", op |-> op, events |-> events,
                            data |-> HTTPRequest_data(d, j),
                            status |-> reply.status])
              /\ ret' = Ret(op, "ok", ~IsError(reply), IsError(reply))
    /\ UNCHANGED <<sink, agent, method, headers>>
    /\ UNCHANGED <<kafkaVars, csvVars, sqlVars, screenVars>>

HTTPRequest_send(event, reply) ==
    HTTPRequest_request("send", <<event>>, raw_data(event),
                        JPayload(raw_data(event)), reply)

HTTPRequest_sendmany(events, mtime, reply) ==
    LET d == Wrapped(HTTPRequest_package(events, mtime))
    IN  HTTPRequest_request("sendmany", events, d, JObj(d), reply)

\* HTTPRequest defines no close and no __getattr__: the call finds no attribute
HTTPRequest_close ==
    /\ sink = "HTTPRequest"
    /\ ret' = Ret("close", "AttributeError", FALSE, FALSE)
    /\ UNCHANGED <<sink, agent, kafkaVars, httpVars, csvVars, sqlVars, screenVars>>

(***************************************************************************)
(* The file system: files maps each existing path to the rows of its file, *)
(* dirs holds the directories that exist beside the working directory.     *)
(* A path is <<directory, name>>, the directory "" being the working       *)
(* directory.                                                              *)
(***************************************************************************)
Dirs == {"", "d1"}
Names == {"a", "b"}
Paths == Dirs \X Names

dirname(path) == path[1]

\* os.renames(old, new) after its existence check of old: the directory of
\* new is made, the file moves (replacing what new named), and the directory
\* of old is removed when that left it empty
os_renames(fs, old, new) ==
    LET moved == [q \in (DOMAIN fs.files \ {old}) \cup {new} |->
                    IF q = new THEN fs.files[old] ELSE fs.files[q]]
        made == fs.dirs \cup ({dirname(new)} \ {""})
        pruned == IF dirname(old) /= ""
                     /\ ~\E q \in DOMAIN moved : dirname(q) = dirname(old)
                    THEN made \ {dirname(old)} ELSE made
    IN  [files |-> moved, dirs |-> pruned]

(***************************************************************************)
(* file objects and csv.DictWriter                                         *)
(***************************************************************************)
\* None and a value, for the attributes that hold a list or an object
NoneObj == [none |-> TRUE]
Some(x) == [some |-> x]
IsNone(o) == DOMAIN o = {"none"}
Truthy(o) == ~IsNone(o) /\ o.some /= <<>>

\* open(path, 'w'): an open file object on a new, empty file; at is the path
\* its file is found under now (a file object stays with its file when the
\* file is renamed)
open_w(path) == [at |-> path, closed |-> FALSE, buf |-> <<>>]

\* file.flush and file.close: what is buffered reaches the file
Flushed(fs, f) ==
    IF f.closed \/ f.buf = <<>> THEN fs
    ELSE [fs EXCEPT !.files[f.at] = @ \o f.buf]

file_close(f) == [f EXCEPT !.closed = TRUE, !.buf = <<>>]

\* csv.DictWriter(f, fieldnames, **kwargs)
DictWriter(fieldnames_, kwargs_) ==
    [fieldnames |-> fieldnames_,
     extrasaction |-> IF "extrasaction" \in DOMAIN kwargs_
                        THEN kwargs_["extrasaction"] ELSE "raise",
     restval |-> ""]

\* DictWriter._dict_to_list: the cells of a row, or the error it raises
dict_to_list(w, rowdict) ==
    IF IsNone(w.fieldnames) THEN [error |-> "TypeError"]
    ELSE IF w.extrasaction = "raise"
            /\ \E k \in DOMAIN rowdict :
                  \A i \in 1..Len(w.fieldnames.some) : w.fieldnames.some[i] /= k
      THEN [error |-> "ValueError"]
    ELSE [cells |-> [i \in 1..Len(w.fieldnames.some) |->
                        IF w.fieldnames.some[i] \in DOMAIN rowdict
                          THEN rowdict[w.fieldnames.some[i]] ELSE w.restval]]

HeaderRow(names) == [kind |-> "header", cells |-> names]
DataRow(cells) == [kind |-> "row", cells |-> cells]

\* what a reader of path finds once the sink's file object has flushed
View(path) ==
    files[path] \o (IF ~fp.closed /\ fp.at = path THEN fp.buf ELSE <<>>)

\* the rows of one kind in a sequence of rows
OfKind(kind, rows) == SelectSeq(rows, LAMBDA r : r.kind = kind)

RECURSIVE SumOver(_, _)
SumOver(f(_), S) ==
    IF S = {} THEN 0
    ELSE LET x == CHOOSE y \in S : TRUE IN f(x) + SumOver(f, S \ {x})

\* the data rows written so far, in all files
RowsWritten ==
    LET n(path) == Len(OfKind("row", View(path)))
    IN  SumOver(n, DOMAIN files)

(***************************************************************************)
(* class Csv                                                               *)
(***************************************************************************)
fs == [files |-> files, dirs |-> dirs]

Csv_catch(a) ==
    LET names == IF Truthy(fieldnames) THEN fieldnames
                 ELSE Some(parser_fieldnames(a))
    IN  /\ sink = "Csv"
        /\ agent' = a
        /\ fieldnames' = names
        /\ writer' = Some(DictWriter(names, kwargs))
        /\ IF fp.closed
             THEN /\ ret' = Ret("catch", "ValueError", FALSE, FALSE)
                  /\ UNCHANGED fp
             ELSE /\ Len(OfKind("header", View(fp.at))) < MaxHeaders
                  /\ fp' = [fp EXCEPT !.buf = Append(@, HeaderRow(names.some))]
                  /\ ret' = Ret("catch", "ok", TRUE, FALSE)
        /\ UNCHANGED <<sink, filename, kwargs, files, dirs>>
        /\ UNCHANGED <<kafkaVars, httpVars, sqlVars, screenVars>>

\* the body shared by Csv.send and Csv.sendmany: rowdicts go to the writer
\* and the file is flushed; raises: the write to the file fails
Csv_write(op, rowdicts, raises) ==
    LET rows == [i \in 1..Len(rowdicts) |-> dict_to_list(writer.some, rowdicts[i])]
        bad == {i \in 1..Len(rows) : "error" \in DOMAIN rows[i]}
    IN  /\ sink = "Csv"
        /\ IF IsNone(writer)
             THEN /\ ret' = Ret(op, "AttributeError", FALSE, FALSE)
                  /\ UNCHANGED <<fp, files>>
             ELSE IF bad /= {}
             THEN /\ ret' = Ret(op, rows[CHOOSE i \in bad : \A j \in bad : i <= j].error,
                                FALSE, FALSE)
                  /\ UNCHANGED <<fp, files>>
             ELSE IF fp.closed
             THEN /\ ret' = Ret(op, "ValueError", FALSE, FALSE)
                  /\ UNCHANGED <<fp, files>>
             ELSE IF raises
             THEN /\ ret' = Ret(op, "IOError", FALSE, TRUE)
                  /\ UNCHANGED <<fp, files>>
             ELSE /\ RowsWritten + Len(rows) <= MaxRows
                  /\ files' = Flushed(fs, [fp EXCEPT !.buf =
                                 @ \o [i \in 1..Len(rows) |-> DataRow(rows[i].cells)]]).files
                  /\ fp' = [fp EXCEPT !.buf = <<>>]
                  /\ ret' = Ret(op, "ok", TRUE, FALSE)
        /\ UNCHANGED <<sink, agent, filename, fieldnames, kwargs, writer, dirs>>
        /\ UNCHANGED <<kafkaVars, httpVars, sqlVars, screenVars>>

Csv_send(event, raises) ==
    Csv_write("send", <<raw_data(event).map>>, raises)

Csv_sendmany(events, raises) ==
    Csv_write("sendmany", [i \in 1..Len(events) |-> raw_data(events[i]).map], raises)

\* a close that refuses a file object already closed
close_once ==
    /\ sink = "Csv"
    /\ files' = Flushed(fs, fp).files
    /\ fp' = file_close(fp)
    /\ ret' = Ret("close", IF fp.closed THEN "ValueError" ELSE "ok", FALSE, FALSE)
    /\ UNCHANGED <<sink, agent, filename, fieldnames, kwargs, writer, dirs>>
    /\ UNCHANGED <<kafkaVars, httpVars, sqlVars, screenVars>>

\* a close that flushes the file and leaves it open
close_flush_only ==
    /\ sink = "Csv"
    /\ files' = Flushed(fs, fp).files
    /\ fp' = [fp EXCEPT !.buf = <<>>]
    /\ ret' = Ret("close", "ok", FALSE, FALSE)
    /\ UNCHANGED <<sink, agent, filename, fieldnames, kwargs, writer, dirs>>
    /\ UNCHANGED <<kafkaVars, httpVars, sqlVars, screenVars>>

Csv_close ==
    /\ sink = "Csv"
    /\ files' = Flushed(fs, fp).files
    /\ fp' = file_close(fp)
    /\ ret' = Ret("close", "ok", FALSE, FALSE)
    /\ UNCHANGED <<sink, agent, filename, fieldnames, kwargs, writer, dirs>>
    /\ UNCHANGED <<kafkaVars, httpVars, sqlVars, screenVars>>

Csv_archive(newname) ==
    LET renamed == os_renames(fs, filename, newname)
        \* the file object after the rename, and the file system after its close
        held == IF fp.at = filename THEN [fp EXCEPT !.at = newname] ELSE fp
        after == Flushed(renamed, held)
    IN  /\ sink = "Csv"
        /\ IF newname = filename
             THEN /\ ret' = Ret("archive", "Exception", FALSE, FALSE)
                  /\ UNCHANGED <<fp, writer, files, dirs>>
             ELSE IF Cardinality(DOMAIN files \cup {newname}) > MaxFiles
             THEN FALSE
             ELSE IF filename \notin DOMAIN files
             \* os.rename finds no file: the directory of newname was made
             THEN /\ ret' = Ret("archive", "OSError", FALSE, TRUE)
                  /\ dirs' = dirs \cup ({dirname(newname)} \ {""})
                  /\ UNCHANGED <<fp, writer, files>>
             ELSE IF dirname(filename) \notin after.dirs \cup {""}
             \* open finds no directory: the file object is closed, not replaced
             THEN /\ ret' = Ret("archive", "IOError", TRUE, TRUE)
                  /\ fp' = file_close(held)
                  /\ files' = after.files
                  /\ dirs' = after.dirs
                  /\ UNCHANGED writer
             ELSE /\ dirs' = after.dirs
                  /\ writer' = Some(DictWriter(fieldnames, kwargs))
                  /\ IF IsNone(fieldnames)
                       \* writeheader fails on the field names
                       THEN /\ fp' = open_w(filename)
                            /\ ret' = Ret("archive", "TypeError", TRUE, FALSE)
                       ELSE /\ fp' = [open_w(filename) EXCEPT
                                        !.buf = <<HeaderRow(fieldnames.some)>>]
                            /\ ret' = Ret("archive", "ok", TRUE, FALSE)
                  /\ files' = [q \in DOMAIN after.files \cup {filename} |->
                                 IF q = filename THEN <<>> ELSE after.files[q]]
        /\ UNCHANGED <<sink, agent, filename, fieldnames, kwargs>>
        /\ UNCHANGED <<kafkaVars, httpVars, sqlVars, screenVars>>

(***************************************************************************)
(* class SQLAlchemy                                                        *)
(*                                                                         *)
(* A session handle is the number of the DB_Session() call that made it;   *)
(* created[h] is the time of that call and closed holds the handles on     *)
(* which close() was called.  pending holds the rows executed and not yet  *)
(* committed in the stored session, table the committed rows.              *)
(***************************************************************************)
\* seconds after which the session property replaces the session
TTL == 900

\* the clock stops here
MaxTime == MaxTicks * (TTL \div 2 + 1)

\* the time _timer holds before the first use
NoTime == -1

\* what can go wrong in one read of the session property: close() raises, the
\* first DB_Session() of the read raises, or the one of the except clause too
SessionFaults == {"close", "factory", "factory twice"}

db == [session |-> _session, timer |-> _timer, created |-> created,
       closed |-> closed, pending |-> pending]

\* DB_Session() at time t: a new handle, with nothing pending
DB_Session(d, t) ==
    [d EXCEPT !.session = Len(d.created) + 1, !.created = Append(@, t),
              !.pending = <<>>]

\* session.close(): the handle is closed and what was pending is rolled back
session_close(d) ==
    [d EXCEPT !.closed = @ \cup {d.session}, !.pending = <<>>]

\* the except clause of the session property
session_except(d, t, fault) ==
    IF fault = "factory twice"
      THEN [raised |-> TRUE, d |-> [d EXCEPT !.timer = t]]
      ELSE [raised |-> FALSE, d |-> DB_Session([d EXCEPT !.timer = t], t)]

Expired(d, t) == t - d.timer > TTL

\* SQLAlchemy.session read at time t: whether the read raised, and the sink
\* after it (the handle it returned is d.session then)
SQLAlchemy_session(d, t, fault) ==
    IF d.session = None
      THEN IF fault \in {"factory", "factory twice"}
             THEN session_except([d EXCEPT !.timer = t], t, fault)
             ELSE [raised |-> FALSE, d |-> DB_Session([d EXCEPT !.timer = t], t)]
    ELSE IF Expired(d, t)
      THEN IF fault \in SessionFaults
             THEN session_except(session_close(d), t, fault)
             ELSE [raised |-> FALSE,
                   d |-> [DB_Session(session_close(d), t) EXCEPT !.timer = t]]
    ELSE [raised |-> FALSE, d |-> d]

\* one read of the property, as the history of the last call keeps it
Use(d, t, r) ==
    [t |-> t, entry |-> d.session,
     got |-> IF r.raised THEN None ELSE r.d.session]

\* rows in a transaction, each with the caller that executed it (0 is the
\* caller for whom a whole call is one step)
Tagged(c, rows) == [i \in 1..Len(rows) |-> [by |-> c, row |-> rows[i]]]
Untagged(tx) == [i \in 1..Len(tx) |-> tx[i].row]

SetDb(d) ==
    /\ Len(d.created) <= MaxHandles
    /\ Len(d.pending) + Len(table) <= MaxRows
    /\ _session' = d.session
    /\ _timer' = d.timer
    /\ created' = d.created
    /\ closed' = d.closed
    /\ pending' = d.pending
    /\ transactions' = [h \in 1..Len(d.created) |->
                           IF h = d.session THEN Tagged(0, d.pending) ELSE <<>>]

\* the identifier name between quote characters
Quoted(name) == <<quote, name, quote>>

\* SQLAlchemy.table
SQLAlchemy_table == Quoted(_table)

SQLAlchemy_catch(a) ==
    LET names == IF Truthy(fields) THEN fields.some ELSE parser_fieldnames(a)
    IN  /\ sink = "SQLAlchemy"
        /\ agent' = a
        /\ fields' = Some(names)
        /\ sql' = Some([action |-> "INSERT INTO", table |-> SQLAlchemy_table,
                        keys |-> Map(Quoted, names),
                        values |-> [i \in 1..Len(names) |-> <<":", names[i]>>]])
        /\ ret' = Ret("catch", "ok", FALSE, FALSE)
        /\ uses' = <<>>
        /\ UNCHANGED <<sink, quote, _table, _session, _timer, created, closed,
                       pending, table, now, calls, transactions>>
        /\ UNCHANGED <<kafkaVars, httpVars, csvVars, screenVars>>

\* the parameters of the statement's placeholders, or the error of a mapping
\* that lacks one
Bind(statement, mapping) ==
    IF \E i \in 1..Len(statement.values) : statement.values[i][2] \notin DOMAIN mapping
      THEN [error |-> "StatementError"]
      ELSE [row |-> [i \in 1..Len(statement.values) |-> mapping[statement.values[i][2]]]]

\* what can go wrong in one send or sendmany: a fault of the first or of the
\* second read of the session property, execute raising after `done` rows,
\* or commit raising
SendFaults ==
    {[at |-> "none"], [at |-> "commit"]}
    \cup {[at |-> "execute", done |-> n] : n \in 0..(MaxBatch - 1)}
    \cup {[at |-> w, fault |-> f] : w \in {"first", "second"}, f \in SessionFaults}

\* the faults that are not of the session property
BasicFaults == {f \in SendFaults : f.at \in {"none", "execute", "commit"}}

FaultOf(fault, where) ==
    IF fault.at = where THEN fault.fault ELSE "none"

\* the rows session.execute applies before it raises, and the exception: a
\* mapping that lacks a placeholder stops it before any row (the parameters of
\* all rows are built first), the fault stops it after `done` rows
Execute(statement, mappings, fault) ==
    LET bound == [i \in 1..Len(mappings) |-> Bind(statement, mappings[i])]
        unbound == {i \in 1..Len(bound) : "error" \in DOMAIN bound[i]}
        stop == IF unbound /= {} THEN 0
                ELSE IF fault.at = "execute" /\ fault.done < Len(bound)
                  THEN fault.done
                ELSE Len(bound)
    IN  [rows |-> [i \in 1..stop |-> bound[i].row],
         raised |-> IF stop = Len(bound) THEN "ok"
                    ELSE IF unbound /= {} THEN "StatementError" ELSE "DBAPIError"]

\* the body shared by SQLAlchemy.send and SQLAlchemy.sendmany: mappings are
\* executed in the session and committed; elapsed is the time execute takes.
\* (Each \E over a one-element set names the value of one step of the body.)
SQLAlchemy_execute_commit(op, mappings, elapsed, fault) ==
    /\ sink = "SQLAlchemy"
    /\ \E first \in {SQLAlchemy_session(db, now, FaultOf(fault, "first"))} :
       \E use1 \in {Use(db, now, first)} :
          IF first.raised
            THEN /\ SetDb(first.d)
                 /\ uses' = <<use1>>
                 /\ ret' = Ret(op, "SessionError", FALSE, TRUE)
                 /\ UNCHANGED <<table, now>>
          ELSE IF IsNone(sql)
            THEN /\ SetDb(first.d)
                 /\ uses' = <<use1>>
                 /\ ret' = Ret(op, "AttributeError", FALSE, FALSE)
                 /\ UNCHANGED <<table, now>>
          ELSE
            \E x \in {Execute(sql.some, mappings, fault)} :
            \E executed \in {[first.d EXCEPT !.pending = @ \o x.rows]} :
               IF x.raised /= "ok"
                 THEN /\ SetDb(executed)
                      /\ uses' = <<use1>>
                      /\ ret' = Ret(op, x.raised, x.rows /= <<>>, TRUE)
                      /\ UNCHANGED <<table, now>>
                 ELSE
                   \E second \in {SQLAlchemy_session(executed, now + elapsed,
                                                     FaultOf(fault, "second"))} :
                      /\ now + elapsed <= MaxTime
                      /\ now' = now + elapsed
                      /\ uses' = <<use1, Use(executed, now + elapsed, second)>>
                      /\ IF second.raised
                           THEN /\ SetDb(second.d)
                                /\ ret' = Ret(op, "SessionError", FALSE, TRUE)
                                /\ UNCHANGED table
                         ELSE IF fault.at = "commit"
                           \* a commit that raises rolls the transaction back
                           THEN /\ SetDb([second.d EXCEPT !.pending = <<>>])
                                /\ ret' = Ret(op, "DBAPIError", FALSE, TRUE)
                                /\ UNCHANGED table
                         ELSE /\ SetDb([second.d EXCEPT !.pending = <<>>])
                              /\ table' = table \o second.d.pending
                              /\ ret' = Ret(op, "ok", second.d.pending /= <<>>, FALSE)
    /\ UNCHANGED <<sink, agent, quote, _table, fields, sql, calls>>
    /\ UNCHANGED <<kafkaVars, httpVars, csvVars, screenVars>>

SQLAlchemy_send(event, elapsed, fault) ==
    SQLAlchemy_execute_commit("send", <<raw_data(event).map>>, elapsed, fault)

SQLAlchemy_sendmany(events, elapsed, fault) ==
    SQLAlchemy_execute_commit("sendmany",
        [i \in 1..Len(events) |-> raw_data(events[i]).map], elapsed, fault)

\* a caller reads the session property
SQLAlchemy_session_read(fault) ==
    LET r == SQLAlchemy_session(db, now, fault)
    IN  /\ sink = "SQLAlchemy"
        /\ SetDb(r.d)
        /\ uses' = <<Use(db, now, r)>>
        /\ ret' = Ret("session", IF r.raised THEN "SessionError" ELSE "ok", FALSE, FALSE)
        /\ UNCHANGED <<sink, agent, quote, _table, fields, sql, table, now, calls>>
        /\ UNCHANGED <<kafkaVars, httpVars, csvVars, screenVars>>

\* time passes between two calls
Tick(elapsed) ==
    /\ sink = "SQLAlchemy"
    /\ now + elapsed <= MaxTime
    /\ now' = now + elapsed
    /\ UNCHANGED <<sink, agent, ret, quote, _table, fields, sql, _session, _timer,
                   created, closed, pending, table, uses, calls, transactions>>
    /\ UNCHANGED <<kafkaVars, httpVars, csvVars, screenVars>>

\* SQLAlchemy defines no close and no __getattr__: the call finds no attribute
SQLAlchemy_close ==
    /\ sink = "SQLAlchemy"
    /\ ret' = Ret("close", "AttributeError", FALSE, FALSE)
    /\ UNCHANGED <<sink, agent, sqlVars>>
    /\ UNCHANGED <<kafkaVars, httpVars, csvVars, screenVars>>

(***************************************************************************)
(* SQLAlchemy.send and SQLAlchemy.sendmany under concurrent callers.  The  *)
(* class takes no lock, so a thread can be switched out between any two    *)
(* statements: each caller goes through its call one statement at a time.  *)
(* calls[c].at is the statement caller c is about to run, read tells the   *)
(* first read of the session property (for execute) from the second (for   *)
(* commit), handle is what the read returned.                              *)
(***************************************************************************)
Callers == {1, 2}

\* a caller that is in no call; made counts the handles it made at line 191,
\* took holds what its last commit committed
Outside ==
    [at |-> "idle", read |-> 0, op |-> "", mappings |-> <<>>, handle |-> None,
     made |-> 0, took |-> <<>>]

\* a caller enters send or sendmany (lines 205-206, 211)
Caller_enter(c, op, mappings) ==
    /\ sink = "SQLAlchemy"
    /\ calls[c].at = "idle"
    /\ calls' = [calls EXCEPT ![c] =
                    [@ EXCEPT !.at = "test", !.read = 1, !.op = op,
                              !.mappings = mappings, !.handle = None,
                              !.took = <<>>]]
    /\ UNCHANGED <<sink, agent, ret, quote, _table, fields, sql, _session, _timer,
                   created, closed, pending, table, now, uses, transactions>>
    /\ UNCHANGED <<kafkaVars, httpVars, csvVars, screenVars>>

Caller_send(c, event) == Caller_enter(c, "send", <<raw_data(event).map>>)

Caller_sendmany(c, events) ==
    Caller_enter(c, "sendmany", [i \in 1..Len(events) |-> raw_data(events[i]).map])

\* the tests of the session property (lines 189 and 192)
Caller_session_test(c) ==
    /\ sink = "SQLAlchemy"
    /\ calls[c].at = "test"
    /\ calls' = [calls EXCEPT ![c].at =
                    IF _session = None THEN "make"
                    ELSE IF Expired(db, now) THEN "replace"
                    ELSE "return"]
    /\ UNCHANGED <<sink, agent, ret, quote, _table, fields, sql, _session, _timer,
                   created, closed, pending, table, now, uses, transactions>>
    /\ UNCHANGED <<kafkaVars, httpVars, csvVars, screenVars>>

\* the sink after a caller made and stored a handle: d is the sink as
\* DB_Session left it
Caller_store(c, d, at_line_191) ==
    /\ Len(d.created) <= MaxHandles
    /\ _session' = d.session
    /\ _timer' = d.timer
    /\ created' = d.created
    /\ closed' = d.closed
    /\ pending' = d.pending
    /\ transactions' =
          [h \in 1..Len(d.created) |->
              IF h \in DOMAIN transactions /\ h \notin d.closed
                THEN transactions[h] ELSE <<>>]
    /\ calls' = [calls EXCEPT ![c] =
                    [@ EXCEPT !.at = "return",
                              !.made = IF at_line_191 THEN @ + 1 ELSE @]]
    /\ UNCHANGED <<sink, agent, ret, quote, _table, fields, sql, table, now, uses>>
    /\ UNCHANGED <<kafkaVars, httpVars, csvVars, screenVars>>

\* no session is stored: the timer is set and a session made (lines 190-191)
Caller_session_make(c) ==
    /\ sink = "SQLAlchemy"
    /\ calls[c].at = "make"
    /\ Caller_store(c, DB_Session([db EXCEPT !.timer = now], now), TRUE)

\* the stored session is too old: it is closed and replaced (lines 193-195)
Caller_session_replace(c) ==
    /\ sink = "SQLAlchemy"
    /\ calls[c].at = "replace"
    /\ Caller_store(c, [DB_Session(session_close(db), now) EXCEPT !.timer = now],
                    FALSE)

\* the property returns what is stored now (line 199)
Caller_session_return(c) ==
    /\ sink = "SQLAlchemy"
    /\ calls[c].at = "return"
    /\ calls' = [calls EXCEPT ![c] =
                    [@ EXCEPT !.handle = _session,
                              !.at = IF calls[c].read = 1 THEN "execute"
                                     ELSE "commit"]]
    /\ UNCHANGED <<sink, agent, ret, quote, _table, fields, sql, _session, _timer,
                   created, closed, pending, table, now, uses, transactions>>
    /\ UNCHANGED <<kafkaVars, httpVars, csvVars, screenVars>>

\* execute on the handle the first read returned (lines 207, 212)
Caller_execute(c) ==
    /\ sink = "SQLAlchemy"
    /\ calls[c].at = "execute"
    /\ IF IsNone(sql)
         THEN /\ ret' = Ret(calls[c].op, "AttributeError", FALSE, FALSE)
              /\ calls' = [calls EXCEPT ![c].at = "idle"]
              /\ UNCHANGED <<pending, transactions>>
         ELSE \E x \in {Execute(sql.some, calls[c].mappings, [at |-> "none"])} :
                IF x.raised /= "ok"
                  THEN /\ ret' = Ret(calls[c].op, x.raised, FALSE, TRUE)
                       /\ calls' = [calls EXCEPT ![c].at = "idle"]
                       /\ UNCHANGED <<pending, transactions>>
                  ELSE /\ LET n(h) == Len(transactions[h])
                          IN  Len(table) + SumOver(n, DOMAIN transactions)
                                 + Len(x.rows) <= MaxRows
                       /\ transactions' =
                             [transactions EXCEPT ![calls[c].handle] =
                                 @ \o Tagged(c, x.rows)]
                       /\ pending' = Untagged(transactions'[_session])
                       /\ calls' = [calls EXCEPT ![c] =
                                       [@ EXCEPT !.at = "test", !.read = 2]]
                       /\ UNCHANGED ret
    /\ UNCHANGED <<sink, agent, quote, _table, fields, sql, _session, _timer,
                   created, closed, table, now, uses>>
    /\ UNCHANGED <<kafkaVars, httpVars, csvVars, screenVars>>

\* commit on the handle the second read returned (lines 208, 213)
Caller_commit(c) ==
    /\ sink = "SQLAlchemy"
    /\ calls[c].at = "commit"
    /\ \E tx \in {transactions[calls[c].handle]} :
          /\ table' = table \o Untagged(tx)
          /\ transactions' = [transactions EXCEPT ![calls[c].handle] = <<>>]
          /\ pending' = Untagged(transactions'[_session])
          /\ calls' = [calls EXCEPT ![c] = [@ EXCEPT !.at = "idle", !.took = tx]]
          /\ ret' = Ret(calls[c].op, "ok", tx /= <<>>, FALSE)
    /\ UNCHANGED <<sink, agent, quote, _table, fields, sql, _session, _timer,
                   created, closed, now, uses>>
    /\ UNCHANGED <<kafkaVars, httpVars, csvVars, screenVars>>

(***************************************************************************)
(* class Screen                                                            *)
(***************************************************************************)
Whitespace == {9, 10, 11, 12, 13, 32}

RECURSIVE lstrip(_)
lstrip(codes) ==
    IF codes /= <<>> /\ Head(codes) \in Whitespace THEN lstrip(Tail(codes)) ELSE codes

RECURSIVE rstrip(_)
rstrip(codes) ==
    IF codes /= <<>> /\ codes[Len(codes)] \in Whitespace
      THEN rstrip(SubSeq(codes, 1, Len(codes) - 1))
      ELSE codes

\* str.strip
strip(s) == chr(rstrip(lstrip(ord(s))))

\* what one Screen.send prints under the number n
Rendering(n, event) ==
    [number |-> n, type |-> event.type,
     body |-> IF IsMapping(raw_data(event))
                THEN [dump |-> raw_data(event).map]
                ELSE [result |-> strip(raw_data(event).str)]]

\* Screen.send for each of events; print raises at the event numbered failing
Screen_print(op, events, failing) ==
    LET done == IF failing \in 1..Len(events) THEN failing - 1 ELSE Len(events)
        counted == IF failing \in 1..Len(events) THEN failing ELSE Len(events)
    IN  /\ sink = "Screen"
        /\ Len(stdout) + done <= MaxLog
        /\ counter + counted <= MaxCount
        /\ counter' = counter + counted
        /\ stdout' = stdout \o [i \in 1..done |-> Rendering(counter + i, events[i])]
        /\ ret' = Ret(op, IF done < Len(events) THEN "IOError" ELSE "ok",
                      done > 0, done < Len(events))
        /\ UNCHANGED <<sink, agent>>
        /\ UNCHANGED <<kafkaVars, httpVars, csvVars, sqlVars>>

Screen_send(event, raises) ==
    Screen_print("send", <<event>>, IF raises THEN 1 ELSE 0)

Screen_sendmany(events, failing) ==
    Screen_print("sendmany", events, failing)

\* Screen.__getattr__ and Null.__getattr__: the call of an attribute the class
\* does not define returns the attribute's name
getattr(item) ==
    /\ sink \in {"Screen", "Null"}
    /\ ret' = Ret(item, "ok", FALSE, FALSE)
    /\ UNCHANGED <<sink, agent, kafkaVars, httpVars, csvVars, sqlVars, screenVars>>

(***************************************************************************)
(* class Null                                                              *)
(***************************************************************************)
\* a send that counts the events it discards
send_counting(event) ==
    /\ sink = "Null"
    /\ counter < MaxCount
    /\ counter' = counter + 1
    /\ ret' = Ret("send", "ok", FALSE, FALSE)
    /\ UNCHANGED <<sink, agent, kafkaVars, httpVars, csvVars, sqlVars, stdout>>

Null_send(event) ==
    /\ sink = "Null"
    /\ ret' = Ret("send", "ok", FALSE, FALSE)
    /\ UNCHANGED <<sink, agent, kafkaVars, httpVars, csvVars, sqlVars, screenVars>>

Null_sendmany(events) ==
    /\ sink = "Null"
    /\ ret' = Ret("sendmany", "ok", FALSE, FALSE)
    /\ UNCHANGED <<sink, agent, kafkaVars, httpVars, csvVars, sqlVars, screenVars>>

(***************************************************************************)
(* The sink under its callers.                                             *)
(***************************************************************************)
vars == <<sink, agent, ret, kafkaVars, httpVars, csvVars, sqlVars, screenVars>>

\* the constructor arguments
HeaderArgs == {[h \in {} |-> ""], [h \in {"Content-Type"} |-> "application/json"]}
MethodArgs == {"GET", "post", "put"}
FilenameArgs == {<<"", "a">>, <<"d1", "a">>}
FieldnamesArgs == {NoneObj, Some(<<"a", "b">>)}
KwargsArgs == {[k \in {} |-> ""], [k \in {"extrasaction"} |-> "ignore"]}
\* the default of the constructor's quote argument, as character codes
Backquote == <<96>>

\* every sequence of at most MaxBatch of these events
BatchesOf(events) == UNION {[1..n -> events] : n \in 0..MaxBatch}

\* the steps of the clock: half the time to live, and a second more
TickSteps == {TTL \div 2, TTL \div 2 + 1}
\* the time an execute takes
Elapsed == {0, TTL \div 2 + 1}

Init ==
    /\ sink \in Sinks
    /\ agent = None
    /\ ret = [op |-> "init", outcome |-> "ok", wrote |-> FALSE, failed |-> FALSE,
              again |-> FALSE, shut |-> FALSE]
    /\ _producer = IF sink = "Kafka" THEN 1 ELSE None
    /\ topic = <<>>
    /\ \E h \in HeaderArgs, m \in MethodArgs :
          /\ sink /= "HTTPRequest" => h = [x \in {} |-> ""] /\ m = "GET"
          /\ method = HTTPRequest_init(h, m).method
          /\ headers = HTTPRequest_init(h, m).headers
    /\ requests = <<>>
    /\ \E f \in FilenameArgs, n \in FieldnamesArgs, k \in KwargsArgs :
          /\ sink /= "Csv" => f = <<"", "a">> /\ n = NoneObj /\ k = [x \in {} |-> ""]
          /\ filename = f
          /\ fieldnames = n
          /\ kwargs = k
          /\ fp = open_w(f)
          /\ writer = NoneObj
          /\ files = IF sink = "Csv" THEN [q \in {f} |-> <<>>] ELSE [q \in {} |-> <<>>]
          /\ dirs = IF sink = "Csv" THEN {dirname(f)} \ {""} ELSE {}
    /\ quote = Backquote
    /\ _table = "events"
    /\ fields \in FieldnamesArgs
    /\ sink /= "SQLAlchemy" => fields = NoneObj
    /\ sql = NoneObj
    /\ _session = None
    /\ _timer = NoTime
    /\ created = <<>>
    /\ closed = {}
    /\ pending = <<>>
    /\ table = <<>>
    /\ now = 0
    /\ uses = <<>>
    /\ calls = [c \in Callers |-> Outside]
    /\ transactions = <<>>
    /\ counter = 0
    /\ stdout = <<>>

\* what the callers pass
KafkaEvents == {E1, E4}
HTTPEvents == {E1, E4}
MTimes == {0, 1}
CsvEvents == {E1, E2, E3}
CsvBatches == {<<>>, <<E1, E2>>, <<E2, E1>>, <<E1, E3>>}
SqlEvents == {E1}
SqlBatches == {<<E1, E5>>, <<E5, E3>>}
ScreenEvents == {E1, E6}
NullEvents == {E1, E4}
Items == {"close", "archive"}

\* every sink, each with the inputs that tell its outcomes apart
Next ==
    \/ \E a \in Agents : OutputBase_catch(a)
    \/ OutputBase_throw
    \/ \E r \in BOOLEAN : Kafka_producer(r)
    \/ \E e \in KafkaEvents, r \in BOOLEAN : Kafka_send(e, r)
    \/ \E es \in BatchesOf(KafkaEvents), r \in BOOLEAN : Kafka_sendmany(es, r)
    \/ Kafka_close
    \/ \E e \in HTTPEvents, r \in Replies : HTTPRequest_send(e, r)
    \/ \E es \in BatchesOf(HTTPEvents), r \in Replies : HTTPRequest_sendmany(es, 0, r)
    \/ HTTPRequest_close
    \/ \E a \in Agents : Csv_catch(a)
    \/ \E e \in {E1, E3}, r \in BOOLEAN : Csv_send(e, r)
    \/ \E es \in {<<>>, <<E1, E2>>}, r \in BOOLEAN : Csv_sendmany(es, r)
    \/ Csv_close
    \/ \E p \in {filename, <<"", "b">>} : Csv_archive(p)
    \/ \E a \in Agents : SQLAlchemy_catch(a)
    \/ \E e \in SqlEvents, f \in BasicFaults : SQLAlchemy_send(e, 0, f)
    \/ \E es \in SqlBatches, f \in BasicFaults : SQLAlchemy_sendmany(es, 0, f)
    \/ \E f \in {"none", "factory twice"} : SQLAlchemy_session_read(f)
    \/ SQLAlchemy_close
    \/ \E t \in {TTL + 1} : Tick(t)
    \/ \E e \in ScreenEvents, r \in BOOLEAN : Screen_send(e, r)
    \/ \E es \in BatchesOf(ScreenEvents), k \in 0..MaxBatch : Screen_sendmany(es, k)
    \/ \E e \in NullEvents : Null_send(e)
    \/ \E es \in BatchesOf(NullEvents) : Null_sendmany(es)
    \/ \E item \in Items : getattr(item)

Spec == Init /\ [][Next]_vars

\* the transport sink alone, over more events and time stamps
InitHTTPRequest == Init /\ sink = "HTTPRequest"

NextHTTPRequest ==
    \/ \E a \in Agents : OutputBase_catch(a)
    \/ OutputBase_throw
    \/ \E e \in HTTPEvents \cup {E2}, r \in Replies : HTTPRequest_send(e, r)
    \/ \E es \in BatchesOf(HTTPEvents \cup {E2}), t \in MTimes,
          r \in {y \in Replies : "raised" \in DOMAIN y \/ ~IsError(y)} :
          HTTPRequest_sendmany(es, t, r)
    \/ HTTPRequest_close

SpecHTTPRequest == InitHTTPRequest /\ [][NextHTTPRequest]_vars

\* the file sink alone, over more events, batches and new names
InitCsv == Init /\ sink = "Csv"

NextCsv ==
    \/ OutputBase_throw
    \/ \E a \in Agents : Csv_catch(a)
    \/ \E e \in CsvEvents, r \in BOOLEAN : Csv_send(e, r)
    \/ \E es \in CsvBatches, r \in BOOLEAN : Csv_sendmany(es, r)
    \/ Csv_close
    \/ \E p \in Paths : Csv_archive(p)

SpecCsv == InitCsv /\ [][NextCsv]_vars

\* the database sink alone, over every fault and with time passing in a call
InitSQLAlchemy == Init /\ sink = "SQLAlchemy"

NextSQLAlchemy ==
    \/ OutputBase_throw
    \/ \E a \in Agents : SQLAlchemy_catch(a)
    \/ \E e \in SqlEvents, t \in Elapsed, f \in SendFaults : SQLAlchemy_send(e, t, f)
    \/ \E es \in SqlBatches, t \in Elapsed, f \in SendFaults :
          SQLAlchemy_sendmany(es, t, f)
    \/ \E f \in SessionFaults \cup {"none"} : SQLAlchemy_session_read(f)
    \/ SQLAlchemy_close
    \/ \E t \in TickSteps : Tick(t)

SpecSQLAlchemy == InitSQLAlchemy /\ [][NextSQLAlchemy]_vars

\* the column-oriented sinks, attached to every kind of producer context
InitSchema == Init /\ sink \in {"Csv", "SQLAlchemy"}

NextSchema ==
    \/ OutputBase_throw
    \/ \E a \in Agents \cup {NoFields} : Csv_catch(a)
    \/ \E e \in {E1}, r \in BOOLEAN : Csv_send(e, r)
    \/ \E es \in {<<>>, <<E1, E5>>}, r \in BOOLEAN : Csv_sendmany(es, r)
    \/ \E p \in {filename, <<"", "b">>} : Csv_archive(p)
    \/ \E a \in Agents \cup {NoFields} : SQLAlchemy_catch(a)
    \/ \E e \in SqlEvents, f \in BasicFaults : SQLAlchemy_send(e, 0, f)
    \/ \E es \in SqlBatches, f \in BasicFaults : SQLAlchemy_sendmany(es, 0, f)

SpecSchema == InitSchema /\ [][NextSchema]_vars

\* the database sink under two callers at once
InitConcurrent == Init /\ sink = "SQLAlchemy"

NextConcurrent ==
    \/ \E a \in Agents : SQLAlchemy_catch(a)
    \/ \E c \in Callers, e \in SqlEvents : Caller_send(c, e)
    \/ \E c \in Callers, es \in SqlBatches : Caller_sendmany(c, es)
    \/ \E c \in Callers : Caller_session_test(c)
    \/ \E c \in Callers : Caller_session_make(c)
    \/ \E c \in Callers : Caller_session_replace(c)
    \/ \E c \in Callers : Caller_session_return(c)
    \/ \E c \in Callers : Caller_execute(c)
    \/ \E c \in Callers : Caller_commit(c)
    \/ \E t \in {TTL + 1} : Tick(t)

SpecConcurrent == InitConcurrent /\ [][NextConcurrent]_vars

(***************************************************************************)
(* The properties.                                                         *)
(***************************************************************************)
Sends == {"send", "sendmany"}

\* C1: every read of the session property that returns, made with a session
\* stored, returns that session when it was created at most TTL seconds
\* before, and otherwise a new session created at the time of the read, the
\* old one having been closed.
C1_SessionTTL ==
    \A i \in 1..Len(uses) :
        LET u == uses[i]
        IN  (u.entry /= None /\ u.got /= None) =>
               IF u.t - created[u.entry] <= TTL
                 THEN u.got = u.entry
                 ELSE /\ u.got /= u.entry
                      /\ u.entry \in closed
                      /\ created[u.got] = u.t

\* C2: a sendmany whose backend call failed does not return normally.
C2_SendmanyReportsFailure ==
    (ret.op = "sendmany" /\ ret.failed) => ret.outcome /= "ok"

\* C3: a send or sendmany made while the sink is attached to no agent does
\* not return normally and writes nothing to the backend.
C3_NoSendUnattached ==
    (ret.op \in Sends /\ agent = None) => (ret.outcome /= "ok" /\ ~ret.wrote)

\* the rows a reader finds in the file of a path
Content(path) == IF path \in DOMAIN files THEN View(path) ELSE <<>>

\* C4: archive to another name, on a sink that was attached and whose file is
\* open, leaves under the new name the rows the file had, and under the old
\* name a new open file that holds the header only.
C4_Rotation ==
    [][\A p \in Paths :
          (/\ Csv_archive(p)
           /\ p /= filename
           /\ agent /= None /\ Truthy(writer) /\ ~fp.closed /\ fp.at = filename)
          => /\ ret'.outcome = "ok"
             /\ Content(p)' = Content(filename)
             /\ Content(filename)' = <<HeaderRow(fieldnames.some)>>
             /\ fp'.at = filename /\ ~fp'.closed]_vars

\* C5: archive to the name the sink writes to raises OutputError, the error
\* class of the module, and leaves the file, the file object and the writer
\* as they were.
C5_RotationOntoItself ==
    [][Csv_archive(filename) =>
          /\ ret'.outcome = "OutputError"
          /\ UNCHANGED <<files, dirs, fp, writer>>]_vars

\* the cells of a mapping under a schema: fields outside it dropped, missing
\* fields empty
Restricted(names, mapping) ==
    [i \in 1..Len(names) |->
        IF names[i] \in DOMAIN mapping THEN mapping[names[i]] ELSE ""]

\* the file sink was attached and its file is open
Ready ==
    Truthy(fieldnames) /\ Truthy(writer) /\ ~fp.closed /\ fp.at \in DOMAIN files

\* the call returned normally and the file got the rows of these events
Appended(es) ==
    /\ ret'.outcome = "ok"
    /\ Content(fp.at)' = Content(fp.at) \o
          [i \in 1..Len(es) |->
              DataRow(Restricted(fieldnames.some, raw_data(es[i]).map))]

\* C6: on an attached file sink whose file is open, every send and sendmany
\* whose write does not fail returns normally and appends to the file one row
\* for each event, in order, each the event's mapping restricted to the schema.
C6_FileRoundTrip ==
    [][/\ \A e \in CsvEvents :
             (Csv_send(e, FALSE) /\ Ready) => Appended(<<e>>)
       /\ \A es \in CsvBatches :
             (Csv_sendmany(es, FALSE) /\ Ready) => Appended(es)]_vars

\* a call of SQLAlchemy.send or SQLAlchemy.sendmany
SQLAlchemy_call ==
    \/ \E e \in SqlEvents, t \in Elapsed, f \in SendFaults : SQLAlchemy_send(e, t, f)
    \/ \E es \in SqlBatches, t \in Elapsed, f \in SendFaults :
          SQLAlchemy_sendmany(es, t, f)

\* C7: after a send or sendmany in which execute or commit raised, the next
\* send or sendmany does not get the session handle of the call that failed.
C7_SessionDiscarded ==
    [][(/\ ret.op \in Sends /\ ret.outcome = "DBAPIError"
        /\ SQLAlchemy_call
        /\ uses'[1].got /= None)
       => uses'[1].got /= uses[Len(uses)].got]_vars

\* what a receiver makes of a packaged batch: base64-decode, gunzip, parse
Receive(packed) ==
    LET z == b64decode(packed)
        t == IF z.ok THEN gzip_decompress(z.v) ELSE Bad
        v == IF t.ok THEN json_loads(t.v) ELSE Bad
    IN  IF v.ok /\ v.v.j = "arr" THEN [ok |-> TRUE, v |-> Map(PyPayload, v.v.xs)]
        ELSE Bad

\* the dict a request of sendmany carries
Carried(request) ==
    IF request.verb = "GET" THEN request.params
    ELSE IF "raw" \in DOMAIN request.data THEN request.data.raw
    ELSE LET v == json_loads(request.data.json)
         IN  IF v.ok /\ v.v.j = "obj" THEN v.v.m ELSE [x \in {} |-> <<>>]

\* C8: every request of sendmany carries the dict {data, gzip: "1"}, and the
\* receiver gets from data the raw_data of the events, in their order.
C8_EncodingRoundTrip ==
    \A i \in 1..Len(requests) :
        requests[i].op = "sendmany" =>
           LET d == Carried(requests[i])
           IN  /\ DOMAIN d = {"data", "gzip"}
               /\ d.gzip = ord("1")
               /\ Receive(d.data) = [ok |-> TRUE, v |-> Map(raw_data, requests[i].events)]

C8_Witness ==
    \E i \in 1..Len(requests) :
        /\ requests[i].op = "sendmany"
        /\ requests[i].events = <<E2, E4>>
        /\ requests[i].verb = "POST"
        /\ "json" \in DOMAIN requests[i].data

\* C9: throw returns normally and leaves the sink with no producer, no open
\* file and no session.
C9_DetachReleases ==
    ret.op = "throw" =>
       /\ ret.outcome = "ok"
       /\ _producer = None
       /\ sink = "Csv" => fp.closed
       /\ _session = None

\* a call of close on a class that has one, or whose __getattr__ answers it
CloseCall == Kafka_close \/ Csv_close \/ getattr("close")

Attached ==
    \/ sink = "Csv" /\ ~IsNone(writer) /\ ~IsNone(fieldnames)
    \/ sink = "SQLAlchemy" /\ ~IsNone(sql)

\* C11: once catch has given a Csv or SQLAlchemy sink its field list, no later
\* call (send, sendmany, archive, throw, another catch) changes the field
\* list, nor the INSERT statement of the SQLAlchemy sink.
C11_SchemaFixity ==
    [][Attached => /\ fieldnames' = fieldnames
                   /\ fields' = fields
                   /\ sql' = sql]_vars

\* C12: the file an attached Csv sink has open holds the header row once, as
\* its first row.
C12_HeaderOnce ==
    (sink = "Csv" /\ agent /= None /\ ~fp.closed /\ fp.at \in DOMAIN files) =>
       /\ Content(fp.at) /= <<>>
       /\ Content(fp.at)[1].kind = "header"
       /\ Len(OfKind("header", Content(fp.at))) = 1

\* the request a call of send or sendmany made carries these events
Issued(op, es) ==
    /\ Len(requests') = Len(requests) + 1
    /\ requests'[Len(requests')].op = op
    /\ requests'[Len(requests')].events = es

\* C13: every HTTPRequest.send and HTTPRequest.sendmany that returns normally
\* has made one request, which carries the event or the batch of the call,
\* whatever method the sink was constructed with.
C13_SendIssuesOneRequest ==
    [][/\ \A e \in HTTPEvents \cup {E2}, r \in Replies :
             (HTTPRequest_send(e, r) /\ ret'.outcome = "ok") => Issued("send", <<e>>)
       /\ \A es \in BatchesOf(HTTPEvents \cup {E2}), t \in MTimes, r \in Replies :
             (HTTPRequest_sendmany(es, t, r) /\ ret'.outcome = "ok")
                => Issued("sendmany", es)]_vars

\* C14: on the Null sink every send and sendmany returns normally and changes
\* nothing: not the sink, not a broker, an endpoint, a file, a table or the
\* standard output.
C14_NullDiscards ==
    [][(sink = "Null" /\ ret'.op \in Sends) =>
          /\ ret'.outcome = "ok" /\ ~ret'.wrote /\ ~ret'.failed
          /\ UNCHANGED <<sink, agent, kafkaVars, httpVars, csvVars, sqlVars,
                          screenVars>>]_vars

C14_Witness ==
    /\ sink = "Null"
    /\ ret.op = "sendmany" /\ ret.outcome = "ok"
    /\ agent /= None

\* C16: a send or sendmany of the SQLAlchemy sink that returns normally got
\* the same session handle from its two reads of the session property, the
\* one it executed in and the one it committed, and its rows were committed.
C16_ExecuteAndCommitSameSession ==
    (sink = "SQLAlchemy" /\ ret.op \in Sends /\ ret.outcome = "ok") =>
       /\ Len(uses) = 2
       /\ uses[1].got = uses[2].got
       /\ ret.wrote

\* C17: the handle the last read of the session property returned is not one
\* close() was called on, and the timer stored beside a stored handle is the
\* time that handle was made.
C17_NoClosedSession ==
    /\ (uses /= <<>> /\ uses[Len(uses)].got /= None) =>
          uses[Len(uses)].got \notin closed
    /\ _session /= None => _timer = created[_session]

\* the call committed nothing, or, when it returned normally, nothing but the
\* rows of its own mappings
CommittedOwn(mappings) ==
    \/ table' = table
    \/ /\ ret'.outcome = "ok"
       /\ table' = table \o [i \in 1..Len(mappings) |-> Bind(sql.some, mappings[i]).row]

\* C18: a send or sendmany of the SQLAlchemy sink that raised commits nothing,
\* and one that returned normally commits only the rows of its own events:
\* rows an earlier call executed before it raised never reach the table.
C18_BatchAllOrNothing ==
    [][/\ \A e \in SqlEvents, t \in Elapsed, f \in SendFaults :
             SQLAlchemy_send(e, t, f) => CommittedOwn(<<raw_data(e).map>>)
       /\ \A es \in SqlBatches, t \in Elapsed, f \in SendFaults :
             SQLAlchemy_sendmany(es, t, f)
                => CommittedOwn([i \in 1..Len(es) |-> raw_data(es[i]).map])]_vars

\* the numbers under which the events on the standard output were printed
Numbers == [i \in 1..Len(stdout) |-> stdout[i].number]

\* C19: Screen.counter is the number of events printed so far, and the events
\* were printed under the numbers 1, 2, 3, ... in the order they were sent.
C19_RunningCounter ==
    sink = "Screen" =>
       /\ counter = Len(stdout)
       /\ Numbers = [i \in 1..Len(stdout) |-> i]

\* a send or sendmany of the Kafka or Csv sink ended after close was called
\* and no archive moved the file since
SentWhenShut == sink \in {"Kafka", "Csv"} /\ ret.shut /\ ret.op \in Sends

\* the call raised and the backend got nothing; on Kafka it raised OutputError
Refused ==
    /\ ret.outcome /= "ok"
    /\ ~ret.wrote
    /\ sink = "Kafka" => ret.outcome = "OutputError"

\* C20, with the producer method taken into account: after close, until an
\* archive moves the file of the Csv sink or producer installs a producer on
\* the Kafka sink, every send and sendmany raises and writes nothing; Kafka
\* raises OutputError.
C20_NoWriteWhileClosed ==
    (SentWhenShut /\ (sink = "Kafka" => _producer = None)) => Refused

C20_Witness ==
    /\ sink = "Csv" /\ agent /= None /\ Truthy(writer)
    /\ ret.shut /\ ret.op = "sendmany" /\ ret.outcome = "ValueError"
    /\ fp.closed
    /\ Content(filename) /= <<>>

\* C20 as it was stated: after close, until an archive, every send and
\* sendmany raises and writes nothing.
C20_NoWriteAfterClose ==
    SentWhenShut => Refused

\* at most one caller is inside send or sendmany
Serialized == Cardinality({c \in Callers : calls[c].at /= "idle"}) <= 1

\* the callers together made at most one handle because none was stored
OneLazySession ==
    LET made(c) == calls[c].made
    IN  SumOver(made, Callers) <= 1

\* what a caller's commit committed are rows that caller executed
CommitsOwnRows ==
    \A c \in Callers :
        \A i \in 1..Len(calls[c].took) : calls[c].took[i].by = c

\* C15: the calls of send and sendmany on one SQLAlchemy sink do not overlap:
\* two callers are never inside a call at once, a session is made for the
\* first use once, and a commit commits the rows of its own call only.
C15_MutualExclusion ==
    /\ Serialized
    /\ OneLazySession
    /\ CommitsOwnRows
====
